---- MODULE Spec2Model ----
(***************************************************************************)
(* The task-execution control loop of the DataInterpreter role             *)
(* (ML_Assistant/metagpt/roles/di/data_interpreter.py): the retry/review   *)
(* controller _write_and_exec_code, the data-state checker _check_data,    *)
(* the reactive _think/_act pair and the plan-and-act wrapper.             *)
(*                                                                         *)
(* Every await of the source is a step of its own, and every await may     *)
(* return, raise an Exception or be cancelled (asyncio.CancelledError,     *)
(* which is a BaseException and no Exception).                             *)
(*                                                                         *)
(* The loops of the base class Role (_react, _plan_and_act) and the        *)
(* planner are not part of the files modelled here; they follow the        *)
(* specification's section 4.5.  The role is modelled in its default tool  *)
(* configuration (tools = [], hence tool_info = "", line 122).             *)
(***************************************************************************)
EXTENDS Integers, Sequences, FiniteSets, TLC

\* ------------------------------------------------------------------ bounds
MaxTasks == 2          \* longest plan
MaxLoopCap == 3        \* largest configured max_react_loop
MaxRetryArg == 3       \* largest max_retry handed to a direct call (the least is -1)
MaxGen == 4            \* code generations of one run

\* -------------------------------------------------------- program constants
DefaultMaxRetry == 3       \* _write_and_exec_code(self, max_retry: int = 3, ...)
DefaultMaxReactLoop == 10  \* max_react_loop: int = 10

VARIABLES
    react_mode,        \* "plan_and_act" | "react"
    max_react_loop,    \* cap of the reactive loop
    use_reflection,    \* the role's use_reflection flag
    direct,            \* TRUE: _write_and_exec_code is entered by a direct call
    tasks,             \* the plan: sequence of task types
    cur,               \* index of the current task; tasks 1..cur-1 are finished
    working_memory,    \* sequence of Messages
    pc,                \* position of the one await-chain of the agent
    exc,               \* exception in flight or propagated, "none" if none
    terminated,        \* execute_code.terminate() has been called
    max_retry,         \* argument of the running _write_and_exec_code
    counter,           \* its local counter
    success,           \* its local success
    code,              \* its local code   (Unbound before the first assignment)
    result,            \* its local result (Unbound before the first assignment)
    ret,               \* the triple the last invocation returned
    actions_taken,     \* counter of the reactive loop
    n_gen,             \* number of code generations so far (names the code texts)
    n_exec,            \* number of submissions to execute_code.run so far (names the results)
    exec_log,          \* history: execute calls of the retry loop of this invocation
    reviews,           \* history: answers of the review gate in this invocation
    wm_base,           \* history: length of working memory when the retry loop was entered
    thinks,            \* history: the _think calls of this run
    n_act,             \* history: number of _act calls of this run
    first_exc,         \* history: the exception first raised in this run
    wm_entry,          \* history: length of working memory when the invocation was entered
    check_data_out,    \* history: how _check_data of this invocation went
    n_done,            \* history: attempts of this invocation that ran to line 150
    gen_log,           \* history: the _write_code calls of this invocation
    raised_at,         \* history: the position at which first_exc was raised
    in_flight          \* submissions the execution backend has not answered yet

vars == <<react_mode, max_react_loop, use_reflection, direct, tasks, cur, working_memory, pc, exc,
          terminated, max_retry, counter, success, code, result, ret, actions_taken,
          n_gen, n_exec, exec_log, reviews, wm_base, thinks, n_act, first_exc,
          wm_entry, check_data_out, n_done, gen_log, raised_at, in_flight>>

config == <<react_mode, max_react_loop, use_reflection, direct, tasks>>
locals == <<max_retry, counter, success, code, result>>
history == <<exec_log, reviews, wm_base, wm_entry, check_data_out, n_done, gen_log>>

\* ------------------------------------------------------------------- values
DATA_PREPROCESS == "data preprocessing"
TaskTypes == {DATA_PREPROCESS, "other"}

Unbound == <<"unbound", 0>>
NoRet == [code |-> Unbound, result |-> Unbound, success |-> FALSE]

\* Message(content=..., role=..., cause_by=...)
Message(content, role, cause_by) ==
    [content |-> content, role |-> role, cause_by |-> cause_by]

\* what an await can raise
Raised == {"Exception", "CancelledError"}

\* `except Exception` (line 97): CancelledError derives from BaseException
IsException(e) == e \in {"Exception", "UnboundLocalError"}

\* self.use_plan = (self.react_mode == "plan_and_act")
use_plan == react_mode = "plan_and_act"

\* self.planner.plan.get_finished_tasks()
get_finished_tasks == SubSeq(tasks, 1, cur - 1)

\* DATA_INFO.format(info=result)
DATA_INFO(info) == <<"data_info", info[2]>>

\* where an exception raised inside the loop goes: _plan_and_act's handler
\* (lines 97-99) when it is entered and catches it, the caller otherwise
RaisePc(e) ==
    IF ~direct /\ use_plan /\ IsException(e) THEN "except" ELSE "propagated"

\* (mutant) the body runs once before the retries are looked at
LoopCond_AtLeastOnce(s, c, m) == ~s /\ (c = 0 \/ c < m)

\* (mutant) the loop goes on after a success
LoopCond_IgnoresSuccess(s, c, m) == c < m

\* the test of line 127
LoopCond(s, c, m) == ~s /\ c < m

\* (mutant) escalation whenever the retries are used up, after a success too
EscalateCond_IgnoresSuccess(s, c, m) == c >= m

\* (mutant) escalation one failure late
EscalateCond_OffByOne(s, c, m) == ~s /\ c > m

\* the test of line 152
EscalateCond(s, c, m) == ~s /\ c >= m

\* (mutant) the test for a finished task is missing
CheckDataSkips_NoFinishedTest ==
    \/ ~use_plan
    \/ tasks[cur] \notin {DATA_PREPROCESS}

\* the test of lines 209-216
CheckDataSkips ==
    \/ ~use_plan
    \/ get_finished_tasks = <<>>
    \/ tasks[cur] \notin {DATA_PREPROCESS}

LoopPc(s, c, m) == IF LoopCond(s, c, m) THEN "write_code" ELSE "return"

\* --------------------------------------------------------------------- Init
Init ==
    /\ react_mode \in {"plan_and_act", "react"}
    /\ direct \in BOOLEAN
    /\ use_reflection \in BOOLEAN
    /\ max_react_loop \in IF react_mode = "react" /\ ~direct
                          THEN 1..MaxLoopCap
                          ELSE {DefaultMaxReactLoop}
    /\ tasks \in IF react_mode = "plan_and_act"
                 THEN UNION {[1..n -> TaskTypes] : n \in 1..MaxTasks}
                 ELSE {<<>>}
    /\ cur \in IF direct /\ react_mode = "plan_and_act" THEN 1..Len(tasks) ELSE {1}
    /\ max_retry \in IF direct THEN (0 - 1)..MaxRetryArg ELSE {DefaultMaxRetry}
    /\ working_memory = <<>>
    /\ pc = "start"
    /\ exc = "none"
    /\ terminated = FALSE
    /\ counter = 0
    /\ success = FALSE
    /\ code = Unbound
    /\ result = Unbound
    /\ ret = NoRet
    /\ actions_taken = 0
    /\ n_gen = 0
    /\ n_exec = 0
    /\ exec_log = <<>>
    /\ reviews = <<>>
    /\ wm_base = 0
    /\ thinks = <<>>
    /\ n_act = 0
    /\ first_exc = "none"
    /\ wm_entry = 0
    /\ check_data_out = "none"
    /\ n_done = 0
    /\ gen_log = <<>>
    /\ raised_at = "none"
    /\ in_flight = 0

\* ------------------------------------------------------ raising and returning
\* an await raises e: the exception leaves every frame down to RaisePc(e)
Raise(e) ==
    /\ exc' = e
    /\ first_exc' = IF first_exc = "none" THEN e ELSE first_exc
    /\ raised_at' = IF first_exc = "none" THEN pc ELSE raised_at
    /\ pc' = RaisePc(e)

NoRaise == UNCHANGED <<exc, first_exc, raised_at>>

\* ----------------------------------------------------- _write_and_exec_code
\* lines 108-125 up to the first await of _check_data: the locals, and
\* _check_data's early return (lines 209-217)
EnterWriteAndExec(m) ==
    /\ max_retry' = m
    /\ counter' = 0
    /\ success' = FALSE
    /\ code' = Unbound
    /\ result' = Unbound
    /\ exec_log' = <<>>
    /\ reviews' = <<>>
    /\ gen_log' = <<>>
    /\ wm_base' = Len(working_memory)
    /\ wm_entry' = Len(working_memory)
    /\ n_done' = 0
    /\ check_data_out' = IF CheckDataSkips THEN "skipped" ELSE "none"
    /\ pc' = IF CheckDataSkips THEN LoopPc(FALSE, 0, m) ELSE "check_data_code"

\* lines 219-222: code = await CheckData().run(plan); an empty snippet
\* returns, any other is submitted to the execution backend
CheckDataCode ==
    /\ pc = "check_data_code"
    /\ \E out \in {"code", "empty"} \cup Raised :
         IF out \in Raised
         THEN /\ Raise(out)
              /\ check_data_out' = "raised"
              /\ UNCHANGED <<in_flight, n_exec>>
         ELSE /\ NoRaise
              /\ check_data_out' = IF out = "empty" THEN "empty" ELSE "none"
              /\ in_flight' = IF out = "empty" THEN in_flight ELSE in_flight + 1
              /\ n_exec' = IF out = "empty" THEN n_exec ELSE n_exec + 1
              /\ pc' = IF out = "empty" THEN LoopPc(success, counter, max_retry)
                                        ELSE "check_data_exec"
    /\ UNCHANGED <<config, cur, working_memory, terminated, locals, ret, actions_taken,
                   n_gen, exec_log, reviews, wm_base, wm_entry, n_done,
                   gen_log, thinks, n_act>>

\* (mutant) the data info is added whatever the outcome
CheckDataAppends_Always(ok) == TRUE

\* line 223: if success
CheckDataAppends(ok) == ok

\* lines 222-226: the await of execute_code.run ends; on success the result
\* is wrapped into a "latest data info" message
CheckDataExec ==
    /\ pc = "check_data_exec"
    /\ in_flight' = in_flight - 1
    /\ \E out \in {"success", "failure"} \cup Raised :
         IF out \in Raised
         THEN /\ Raise(out)
              /\ check_data_out' = "raised"
              /\ UNCHANGED <<working_memory, wm_base>>
         ELSE /\ NoRaise
              /\ check_data_out' = out
              /\ working_memory' =
                    IF CheckDataAppends(out = "success")
                    THEN Append(working_memory,
                                Message(DATA_INFO(<<"result", n_exec>>), "user", "CheckData"))
                    ELSE working_memory
              /\ wm_base' = Len(working_memory')
              /\ pc' = LoopPc(success, counter, max_retry)
    /\ UNCHANGED <<config, cur, terminated, locals, ret, actions_taken,
                   n_gen, n_exec, exec_log, reviews, wm_entry, n_done, gen_log, thinks, n_act>>

\* (mutant) reflection whenever an earlier attempt of the invocation failed
UseReflection_AfterAnyFailure(c, flag) == flag /\ exec_log # <<>>

\* (mutant) reflection from the first trial on
UseReflection_IgnoresCounter(c, flag) == flag

\* line 193: use_reflection = counter > 0 and self.use_reflection
UseReflection(c, flag) == c > 0 /\ flag

\* (mutant) the generator is handed the memory without its last entry
Snapshot_WithoutLast(wm) == SubSeq(wm, 1, Len(wm) - 1)

\* line 201: working_memory=self.working_memory.get()
Snapshot(wm) == wm

\* line 129 and lines 191-206: code, cause_by = await self._write_code(counter,
\* ...).  The generator answers with a code block, or with a text that holds
\* no parsable code block, or the call raises.
WriteCode ==
    /\ pc = "write_code"
    /\ n_gen < MaxGen
    /\ \E out \in {"code", "text"} \cup Raised :
         IF out \in Raised
         THEN /\ Raise(out)
              /\ UNCHANGED <<code, n_gen, gen_log>>
         ELSE /\ NoRaise
              /\ n_gen' = n_gen + 1
              /\ code' = <<out, n_gen + 1>>
              /\ gen_log' = Append(gen_log,
                                   [counter |-> counter,
                                    use_reflection |-> UseReflection(counter, use_reflection),
                                    working_memory |-> Snapshot(working_memory)])
              /\ pc' = "log_code"
    /\ UNCHANGED <<config, in_flight, cur, working_memory, terminated, max_retry, counter,
                   success, result, ret, actions_taken, n_exec, exec_log, reviews,
                   wm_base, wm_entry, check_data_out, n_done, thinks, n_act>>

\* lines 130-136: the two log_execution awaits, then the code message, then
\* the code is submitted to the execution backend
LogCode ==
    /\ pc = "log_code"
    /\ \E out \in {"logged"} \cup Raised :
         IF out \in Raised
         THEN /\ Raise(out)
              /\ UNCHANGED <<working_memory, in_flight, n_exec>>
         ELSE /\ NoRaise
              /\ working_memory' =
                    Append(working_memory, Message(code, "assistant", "WriteAnalysisCode"))
              /\ in_flight' = in_flight + 1
              /\ n_exec' = n_exec + 1
              /\ pc' = "execute"
    /\ UNCHANGED <<config, cur, terminated, locals, ret, actions_taken,
                   n_gen, history, thinks, n_act>>

\* what the backend can report for a code: a text without a parsable code
\* block surfaces as an execution failure
\* (mutant) a response without a code block may execute successfully
RunOutcomes_TextMaySucceed(c) == {"success", "failure"}

RunOutcomes(c) == IF c[1] = "text" THEN {"failure"} ELSE {"success", "failure"}

\* line 136: result, success = await self.execute_code.run(code): the
\* await ends
Execute ==
    /\ pc = "execute"
    /\ in_flight' = in_flight - 1
    /\ \E out \in RunOutcomes(code) \cup Raised :
         IF out \in Raised
         THEN /\ Raise(out)
              /\ UNCHANGED <<result, success, exec_log>>
         ELSE /\ NoRaise
              /\ result' = <<"result", n_exec>>
              /\ success' = (out = "success")
              /\ exec_log' = Append(exec_log, [code |-> code, result |-> result',
                                               success |-> success'])
              /\ pc' = "log_result"
    /\ UNCHANGED <<config, cur, working_memory, terminated, max_retry, counter, code,
                   ret, actions_taken, n_gen, n_exec, reviews, wm_base, wm_entry, check_data_out,
                   n_done, gen_log, thinks, n_act>>

\* (mutant) the result message is put in front of working memory
AddResult_AtFront(wm, r, s) == <<Message(r, "user", "ExecuteNbCode")>> \o wm

\* (mutant) the result message is only added after a success
AddResult_OnSuccessOnly(wm, r, s) ==
    IF s THEN Append(wm, Message(r, "user", "ExecuteNbCode")) ELSE wm

\* line 147: the result message is added whatever the outcome
AddResult(wm, r, s) == Append(wm, Message(r, "user", "ExecuteNbCode"))

\* lines 138-152: the log_execution awaits of either branch (and
\* extract_and_log_images on success), the result message, counter += 1 and
\* the test for escalation
LogResult ==
    /\ pc = "log_result"
    /\ \E out \in {"logged"} \cup Raised :
         IF out \in Raised
         THEN /\ Raise(out)
              /\ UNCHANGED <<working_memory, counter, n_done>>
         ELSE /\ NoRaise
              /\ working_memory' = AddResult(working_memory, result, success)
              /\ counter' = counter + 1
              /\ n_done' = n_done + 1
              /\ pc' = IF EscalateCond(success, counter', max_retry)
                       THEN "ask_review"
                       ELSE LoopPc(success, counter', max_retry)
    /\ UNCHANGED <<config, in_flight, cur, terminated, max_retry, success, code, result, ret,
                   actions_taken, n_gen, n_exec, exec_log, reviews, wm_base, wm_entry,
                   check_data_out, gen_log, thinks, n_act>>

\* ReviewConst.CHANGE_WORDS: the fixed list of trigger words
CHANGE_WORDS == <<"change", "retry">>

\* what a reviewer's text can hold of them: no trigger word, or one of them
ReviewTexts == {{}} \cup {{CHANGE_WORDS[i]} : i \in 1..Len(CHANGE_WORDS)}

\* (mutant) every word of the list is looked for
ChangeSignal_AnyWord(review) == \E i \in 1..Len(CHANGE_WORDS) : CHANGE_WORDS[i] \in review

\* line 155: ReviewConst.CHANGE_WORDS[0] in review
ChangeSignal(review) == CHANGE_WORDS[1] \in review

\* lines 154-156: the review gate; the change word in the review resets counter
AskReview ==
    /\ pc = "ask_review"
    /\ \E out \in {"answered"} \cup Raised :
         IF out \in Raised
         THEN /\ Raise(out)
              /\ UNCHANGED <<counter, reviews>>
         ELSE \E review \in ReviewTexts :
              /\ NoRaise
              /\ reviews' = Append(reviews, [words |-> review, after |-> n_done])
              /\ counter' = IF ChangeSignal(review) THEN 0 ELSE counter
              /\ pc' = LoopPc(success, counter', max_retry)
    /\ UNCHANGED <<config, in_flight, cur, working_memory, terminated, max_retry, success, code,
                   result, ret, actions_taken, n_gen, n_exec, exec_log, wm_base,
                   wm_entry, check_data_out, n_done, gen_log, thinks, n_act>>

\* line 158: return code, result, success; a local never assigned raises
\* UnboundLocalError
Return ==
    /\ pc = "return"
    /\ IF code = Unbound \/ result = Unbound
       THEN /\ Raise("UnboundLocalError")
            /\ UNCHANGED ret
       ELSE /\ NoRaise
            /\ ret' = [code |-> code, result |-> result, success |-> success]
            /\ pc' = "returned"
    /\ UNCHANGED <<config, in_flight, cur, working_memory, terminated, locals, actions_taken,
                   n_gen, n_exec, history, thinks, n_act>>

\* a direct call of _write_and_exec_code(max_retry)
DirectCall ==
    /\ pc = "start"
    /\ direct
    /\ EnterWriteAndExec(max_retry)
    /\ UNCHANGED <<config, in_flight, cur, working_memory, exc, first_exc, raised_at, terminated, ret,
                   actions_taken, n_gen, n_exec, thinks, n_act>>

\* ------------------------------------------------------------ plan-and-act
\* the plan's current task, or none when every task is finished
PlanPc(c) == IF c <= Len(tasks) THEN "act_on_task" ELSE "done"

\* lines 93-94: _plan_and_act enters its try and awaits the loop of Role
PlanAndAct ==
    /\ pc = "start"
    /\ ~direct
    /\ use_plan
    /\ pc' = "update_plan"
    /\ UNCHANGED <<config, in_flight, cur, working_memory, exc, first_exc, raised_at, terminated, locals, ret,
                   actions_taken, n_gen, n_exec, history, thinks, n_act>>

\* Role._plan_and_act: the planner draws up the plan
UpdatePlan ==
    /\ pc = "update_plan"
    /\ \E out \in {"planned"} \cup Raised :
         IF out \in Raised
         THEN Raise(out)
         ELSE /\ NoRaise
              /\ pc' = PlanPc(cur)
    /\ UNCHANGED <<config, in_flight, cur, working_memory, terminated, locals, ret,
                   actions_taken, n_gen, n_exec, history, thinks, n_act>>

\* line 103: _act_on_task runs the controller on the current task
ActOnTask ==
    /\ pc = "act_on_task"
    /\ EnterWriteAndExec(DefaultMaxRetry)
    /\ UNCHANGED <<config, in_flight, cur, working_memory, exc, first_exc, raised_at, terminated, ret,
                   actions_taken, n_gen, n_exec, thinks, n_act>>

\* lines 104-105 and Role._plan_and_act: the outcome is wrapped into a
\* TaskResult and the plan advances
TaskDone ==
    /\ pc = "returned"
    /\ ~direct
    /\ use_plan
    /\ \E out \in {"advanced"} \cup Raised :
         IF out \in Raised
         THEN /\ Raise(out)
              /\ UNCHANGED cur
         ELSE /\ NoRaise
              /\ cur' = cur + 1
              /\ pc' = PlanPc(cur')
    /\ UNCHANGED <<config, in_flight, working_memory, terminated, locals, ret,
                   actions_taken, n_gen, n_exec, history, thinks, n_act>>

\* lines 97-99: except Exception as e: await self.execute_code.terminate();
\* raise e.  terminate() is an await of its own and may raise in its turn.
Terminate ==
    /\ pc = "except"
    /\ terminated' = TRUE
    /\ \E out \in {"terminated", "TerminateError", "CancelledError"} :
         exc' = IF out = "terminated" THEN exc ELSE out
    /\ pc' = "propagated"
    /\ UNCHANGED <<config, in_flight, cur, working_memory, first_exc, raised_at, locals, ret,
                   actions_taken, n_gen, n_exec, history, thinks, n_act>>

\* ------------------------------------------------------------------- react
\* (mutant) the cap is handed on one too large
rc_max_react_loop_PlusOne == max_react_loop + 1

\* line 53: the cap handed to _set_react_mode
rc_max_react_loop == max_react_loop

\* Role._react: while actions_taken < rc.max_react_loop
ReactPc(n) == IF n < rc_max_react_loop THEN "think" ELSE "done"

React ==
    /\ pc = "start"
    /\ ~direct
    /\ ~use_plan
    /\ pc' = ReactPc(actions_taken)
    /\ UNCHANGED <<config, in_flight, cur, working_memory, exc, first_exc, raised_at, terminated, locals, ret,
                   actions_taken, n_gen, n_exec, history, thinks, n_act>>

UserRequirement == Message(<<"requirement", 0>>, "user", "UserRequirement")

\* (mutant) the model is asked on an empty memory too
ThinkForced_Never(context) == FALSE

\* lines 72-76: an empty working memory forces the action
ThinkForced(context) == context = <<>>

\* (mutant) _think returns True whatever the model decided
NeedAction_Always(state) == TRUE

\* lines 82-85: need_action = rsp_dict["state"]; ...; return need_action
NeedAction(state) == state

\* lines 67-85
Think ==
    /\ pc = "think"
    /\ IF ThinkForced(working_memory)
       THEN /\ working_memory' = Append(working_memory, UserRequirement)
            /\ thinks' = Append(thinks, [llm |-> FALSE, state |-> TRUE])
            /\ NoRaise
            /\ pc' = "act"
       ELSE \E out \in {"more", "fulfilled"} \cup Raised :
              IF out \in Raised
              THEN /\ Raise(out)
                   /\ UNCHANGED <<working_memory, thinks>>
              ELSE /\ NoRaise
                   /\ working_memory' =
                         Append(working_memory,
                                Message(<<"thoughts", Len(thinks) + 1>>, "assistant", "none"))
                   /\ thinks' = Append(thinks, [llm |-> TRUE, state |-> (out = "more")])
                   /\ pc' = IF NeedAction(out = "more") THEN "act" ELSE "done"
    /\ UNCHANGED <<config, in_flight, cur, terminated, locals, ret, actions_taken,
                   n_gen, n_exec, history, n_act>>

\* (mutant) _act asks for a single attempt
ActMaxRetry_Single == DefaultMaxRetry - 2

\* line 89: the call passes no max_retry, the default applies
ActMaxRetry == DefaultMaxRetry

\* line 89: code, _, _ = await self._write_and_exec_code()
Act ==
    /\ pc = "act"
    /\ n_act' = n_act + 1
    /\ EnterWriteAndExec(ActMaxRetry)
    /\ UNCHANGED <<config, in_flight, cur, working_memory, exc, first_exc, raised_at, terminated, ret,
                   actions_taken, n_gen, n_exec, thinks>>

\* line 90 and Role._react: the message is returned, actions_taken += 1
ActDone ==
    /\ pc = "returned"
    /\ ~direct
    /\ ~use_plan
    /\ actions_taken' = actions_taken + 1
    /\ pc' = ReactPc(actions_taken')
    /\ UNCHANGED <<config, in_flight, cur, working_memory, exc, first_exc, raised_at, terminated, locals, ret,
                   n_gen, n_exec, history, thinks, n_act>>

Next ==
    \/ DirectCall
    \/ PlanAndAct
    \/ UpdatePlan
    \/ ActOnTask
    \/ TaskDone
    \/ Terminate
    \/ React
    \/ Think
    \/ Act
    \/ ActDone
    \/ CheckDataCode
    \/ CheckDataExec
    \/ WriteCode
    \/ LogCode
    \/ Execute
    \/ LogResult
    \/ AskReview
    \/ Return

Spec == Init /\ [][Next]_vars

\* one direct call of _write_and_exec_code taken by itself, every await of
\* which completes: it returns, raises or is cancelled
LoopInit == Init /\ direct

LoopNext ==
    \/ DirectCall
    \/ CheckDataCode
    \/ CheckDataExec
    \/ WriteCode
    \/ LogCode
    \/ Execute
    \/ LogResult
    \/ AskReview
    \/ Return

LoopSpec == LoopInit /\ [][LoopNext]_vars /\ WF_vars(LoopNext)

\* ================================================================== claims
\* positions inside one invocation of _write_and_exec_code
ControllerPcs ==
    {"check_data_code", "check_data_exec", "write_code", "log_code", "execute",
     "log_result", "ask_review", "return", "returned"}

\* positions of the retry loop at which no attempt is under way
BetweenAttempts == {"write_code", "ask_review", "return", "returned"}

\* the run is a reactive run / a plan-and-act run of the role
Reactive == ~direct /\ ~use_plan
Planned == ~direct /\ use_plan

\* the execute calls of this invocation: n failures, then one success
FailsThenSuccess(n) ==
    /\ Len(exec_log) >= n + 1
    /\ \A i \in 1..n : ~exec_log[i].success
    /\ exec_log[n + 1].success

AllFailed == \A i \in 1..Len(exec_log) : ~exec_log[i].success
NoChange == \A i \in 1..Len(reviews) : reviews[i].words = {}

LastAttempt(ok) ==
    [code |-> exec_log[Len(exec_log)].code,
     result |-> exec_log[Len(exec_log)].result,
     success |-> ok]

\* the part of working memory the retry loop of this invocation wrote
LoopEntries == SubSeq(working_memory, wm_base + 1, Len(working_memory))

\* C1: when the backend fails on the first N attempts of an invocation
\* (N < max_retry) and succeeds on attempt N+1, the retry loop makes exactly
\* N+1 execute calls, asks for no review, goes on to no further attempt and
\* returns success = TRUE with the code and result of attempt N+1.
C1_FailsThenSuccessReturnsLast ==
    \A n \in 0..(max_retry - 1) :
        (pc \in ControllerPcs /\ FailsThenSuccess(n)) =>
            /\ Len(exec_log) = n + 1
            /\ reviews = <<>>
            /\ pc \in {"log_result", "return", "returned"}
            /\ pc = "returned" => ret = LastAttempt(TRUE)

\* the specification's scenario: max_retry = 3, attempt 1 fails, attempt 2
\* succeeds: 2 execute calls, 4 entries in working memory
C1_Witness ==
    /\ pc = "returned"
    /\ max_retry = 3
    /\ FailsThenSuccess(1)
    /\ Len(exec_log) = 2
    /\ Len(LoopEntries) = 4
    /\ ret.success

\* C2: when every attempt of an invocation with max_retry >= 1 fails and no
\* review carries the change word, the retry loop makes exactly max_retry
\* execute calls, the review gate is asked exactly once, after which the
\* invocation only returns, with success = FALSE and the code and result of
\* the last attempt.
C2_AllFailReturnsFailure ==
    (pc \in ControllerPcs /\ max_retry >= 1 /\ AllFailed /\ NoChange) =>
        /\ Len(exec_log) <= max_retry
        /\ Len(reviews) <= 1
        /\ reviews # <<>> => (pc \in {"return", "returned"} /\ Len(exec_log) = max_retry)
        /\ pc = "returned" =>
              /\ Len(exec_log) = max_retry
              /\ Len(reviews) = 1
              /\ ret = LastAttempt(FALSE)

\* the specification's scenario: max_retry = 3, the backend always fails
C2_Witness ==
    /\ pc = "returned"
    /\ max_retry = 3
    /\ AllFailed
    /\ Len(exec_log) = 3
    /\ Len(reviews) = 1
    /\ NoChange
    /\ ~ret.success

\* C3: after K completed attempts of the retry loop, working memory holds
\* exactly 2K entries of this loop: for the i-th attempt its code message and
\* then its result message, in the order of the attempts.
C3_TwoEntriesPerAttempt ==
    pc \in BetweenAttempts =>
        /\ Len(LoopEntries) = 2 * n_done
        /\ n_done = Len(exec_log)
        /\ \A i \in 1..n_done :
              /\ LoopEntries[2 * i - 1] =
                    Message(exec_log[i].code, "assistant", "WriteAnalysisCode")
              /\ LoopEntries[2 * i] =
                    Message(exec_log[i].result, "user", "ExecuteNbCode")
        /\ \A i \in 1..(n_done - 1) :
              /\ exec_log[i].code[2] < exec_log[i + 1].code[2]
              /\ exec_log[i].result[2] < exec_log[i + 1].result[2]

C3_Witness ==
    /\ pc = "write_code"
    /\ n_done = 2
    /\ Len(LoopEntries) = 4
    /\ wm_base > 0

IsCodeMessage(m) == m.role = "assistant" /\ m.cause_by = "WriteAnalysisCode"
IsResultMessage(m) == m.role = "user" /\ m.cause_by = "ExecuteNbCode"

\* C4: in every state in which no attempt is between its code message and
\* its result message (also after an await has raised), every code message of
\* working memory is immediately followed by the message of its result.
C4_CodeThenResultAdjacent ==
    pc \notin {"execute", "log_result"} =>
        \A i \in 1..Len(working_memory) :
            IsCodeMessage(working_memory[i]) =>
                /\ i < Len(working_memory)
                /\ IsResultMessage(working_memory[i + 1])

\* C5: whenever an exception leaves _plan_and_act, terminate() has been
\* called on the execution backend and the exception that leaves is the one
\* that was raised.
C5_TerminateBeforePropagation ==
    (Planned /\ pc = "propagated") => (terminated /\ exc = first_exc)

\* C6 as stated: in reactive mode an act step makes at most one execute call,
\* never retries after a failure and never asks for a review.
C6_SingleCycleNoReview ==
    Reactive => (Len(exec_log) <= 1 /\ reviews = <<>>)

\* C6 as amended: in reactive mode each act step is exactly one invocation of
\* _write_and_exec_code with the default max_retry: it makes at least one
\* execute call, exactly one only if the first execution succeeds, and asks
\* for a review exactly when max_retry executions in a row have failed.
C6_ActUsesRetryController ==
    (Reactive /\ pc \in ControllerPcs) =>
        /\ max_retry = DefaultMaxRetry
        /\ n_act = actions_taken + 1
        /\ pc = "returned" =>
              /\ Len(exec_log) >= 1
              /\ (Len(exec_log) = 1) <=> exec_log[1].success
              /\ (reviews # <<>>) <=>
                    /\ Len(exec_log) >= DefaultMaxRetry
                    /\ \A i \in 1..DefaultMaxRetry : ~exec_log[i].success

C6_Witness ==
    /\ Reactive
    /\ pc = "returned"
    /\ Len(exec_log) = 3
    /\ AllFailed
    /\ Len(reviews) = 1

\* C7: in reactive mode a _think on an empty working memory asks no model,
\* adds the user requirement to working memory and returns true (the step
\* goes on to act); before the first _think has returned, no code has been
\* generated or executed and no act has begun.
C7_ForcedStep ==
    (Reactive /\ pc = "think" /\ working_memory = <<>>) =>
        /\ pc' = "act"
        /\ working_memory' = <<UserRequirement>>
        /\ thinks' = Append(thinks, [llm |-> FALSE, state |-> TRUE])

C7_NoCycleBefore ==
    (Reactive /\ thinks = <<>>) => (n_gen = 0 /\ n_exec = 0 /\ n_act = 0)

C7_FirstThinkForced ==
    /\ [][C7_ForcedStep]_vars
    /\ [](C7_NoCycleBefore)
    /\ []((Reactive /\ thinks # <<>>) => ~thinks[1].llm)

C7_Witness ==
    /\ Reactive
    /\ pc = "act"
    /\ thinks = <<[llm |-> FALSE, state |-> TRUE]>>
    /\ working_memory = <<UserRequirement>>
    /\ n_gen = 0

\* C8: in reactive mode the number of steps of a run (think calls, act
\* calls, completed iterations) never exceeds max_react_loop.
C8_StepsWithinCap ==
    Reactive =>
        /\ Len(thinks) <= max_react_loop
        /\ n_act <= max_react_loop
        /\ actions_taken <= max_react_loop

\* the model answers "need more action" at every step and the cap stops the run
C8_Witness ==
    /\ Reactive
    /\ pc = "done"
    /\ max_react_loop >= 2
    /\ actions_taken = max_react_loop
    /\ \A i \in 1..Len(thinks) : thinks[i].state

\* the model's decision was state = false, for the first time at step k
FirstFalseAt(k) ==
    /\ Len(thinks) = k
    /\ ~thinks[k].state
    /\ \A i \in 1..(k - 1) : thinks[i].state

\* C9 as stated: when the model first returns state = false at step k, the
\* run has ended after exactly k act cycles.
C9_ExactlyKActs ==
    \A k \in 1..max_react_loop :
        (Reactive /\ FirstFalseAt(k)) => (pc = "done" /\ n_act = k)

\* C9 as amended: when the model first returns state = false at step k
\* (2 <= k <= cap), the run has ended after exactly k - 1 act cycles, all of
\* them completed, and no act cycle follows.
C9_ExactlyKMinusOneActs ==
    \A k \in 1..max_react_loop :
        (Reactive /\ FirstFalseAt(k)) =>
            /\ k >= 2
            /\ pc = "done"
            /\ n_act = k - 1
            /\ actions_taken = k - 1

\* the amended scenario: state = false at step 3, two act cycles
C9_Witness ==
    /\ Reactive
    /\ FirstFalseAt(3)
    /\ n_act = 2
    /\ pc = "done"

\* the "latest data info" messages added since the invocation was entered
DataInfoAdded ==
    {i \in (wm_entry + 1)..Len(working_memory) : working_memory[i].cause_by = "CheckData"}

\* the four conditions of the claim
CheckDataConditions ==
    /\ use_plan
    /\ get_finished_tasks # <<>>
    /\ tasks[cur] = DATA_PREPROCESS
    /\ check_data_out = "success"

\* C10: once _check_data of an invocation is over (returned or raised), it
\* has added exactly one "latest data info" message if planning is enabled,
\* a task is finished, the current task is a data-preprocessing task and the
\* inspection's execution succeeded, and no message in every other case.
C10_DataInfoIffConditions ==
    (pc \in ControllerPcs \cup {"except", "propagated"} /\ check_data_out # "none") =>
        /\ Cardinality(DataInfoAdded) = IF CheckDataConditions THEN 1 ELSE 0
        /\ \A i \in DataInfoAdded :
              /\ i = wm_entry + 1
              /\ working_memory[i].role = "user"
              /\ working_memory[i].content[1] = "data_info"

C10_Witness ==
    /\ pc = "write_code"
    /\ check_data_out = "success"
    /\ Cardinality(DataInfoAdded) = 1
    /\ cur = 2

\* C11, the step: an inspection whose execution reports failure adds nothing
\* to working memory, raises nothing and hands over to a retry loop that
\* starts with counter 0 and success unset.
C11_FailureStep ==
    (pc = "check_data_exec" /\ check_data_out' = "failure") =>
        /\ working_memory' = working_memory
        /\ exc' = "none"
        /\ counter' = 0
        /\ ~success'
        /\ pc' = LoopPc(FALSE, 0, max_retry)

\* C11, the outcome: after a failed inspection the invocation holds no data
\* info message, escalates for the first time only after max_retry executes
\* of its own, and returns the success flag of its own last execution.
C11_FailureOutcome ==
    (pc \in ControllerPcs /\ check_data_out = "failure") =>
        /\ DataInfoAdded = {}
        /\ wm_base = wm_entry
        /\ reviews = <<>> => counter = n_done
        /\ (pc = "ask_review" /\ reviews = <<>>) => Len(exec_log) = max_retry
        /\ pc = "returned" => ret.success = exec_log[Len(exec_log)].success

\* C11: a failed inspection execution of _check_data is swallowed and leaves
\* the retry loop that follows, its budget and its outcome untouched.
C11_CheckFailureSwallowed ==
    /\ [][C11_FailureStep]_vars
    /\ [](C11_FailureOutcome)

C11_Witness ==
    /\ check_data_out = "failure"
    /\ pc = "returned"
    /\ ret.success
    /\ Len(exec_log) = 2

\* the review gate has just answered: the last review was given after the
\* last completed attempt and no attempt has begun since
JustReviewed ==
    /\ pc \in {"write_code", "return", "returned"}
    /\ reviews # <<>>
    /\ reviews[Len(reviews)].after = n_done

LastReview == reviews[Len(reviews)].words

\* C12 as stated: after an escalation whose review holds any of the trigger
\* words the controller resumes with counter 0; after one that holds none it
\* returns the last code and result with success = FALSE.
C12_AnyTriggerWordResets ==
    (JustReviewed /\ max_retry >= 1) =>
        IF LastReview # {}
        THEN pc = "write_code" /\ counter = 0
        ELSE pc \in {"return", "returned"}

\* C12 as amended: after an escalation whose review holds the first word of
\* CHANGE_WORDS the controller resumes with counter 0 and a further attempt;
\* after any other review, one that holds another trigger word included, it
\* only returns, with the last code, the last result and success = FALSE.
C12_FirstChangeWordResets ==
    (JustReviewed /\ max_retry >= 1) =>
        IF CHANGE_WORDS[1] \in LastReview
        THEN pc = "write_code" /\ counter = 0
        ELSE /\ pc \in {"return", "returned"}
             /\ counter = max_retry
             /\ pc = "returned" => ret = LastAttempt(FALSE)

C12_Witness ==
    /\ JustReviewed
    /\ pc = "write_code"
    /\ counter = 0
    /\ max_retry = 3
    /\ LastReview = {CHANGE_WORDS[1]}

\* the messages attempt i of this invocation left in working memory
CodeMessageOf(i) == Message(exec_log[i].code, "assistant", "WriteAnalysisCode")
ResultMessageOf(i) == Message(exec_log[i].result, "user", "ExecuteNbCode")

\* C13: the working memory handed to the g-th generation call of an
\* invocation holds, for every earlier attempt i < g and in attempt order,
\* the code message of attempt i followed by its result message with the
\* result text exactly as the backend returned it; so the call after a
\* failed attempt sees that failure's text unchanged.
C13_SnapshotHoldsEarlierAttempts ==
    \A g \in 1..Len(gen_log) : \A i \in 1..(g - 1) :
        /\ i <= Len(exec_log)
        /\ Len(gen_log[g].working_memory) = wm_base + 2 * (g - 1)
        /\ gen_log[g].working_memory[wm_base + 2 * i - 1] = CodeMessageOf(i)
        /\ gen_log[g].working_memory[wm_base + 2 * i] = ResultMessageOf(i)

C13_Witness ==
    /\ pc = "log_code"
    /\ Len(gen_log) = 3
    /\ AllFailed
    /\ wm_base > 0

\* generation g is the first one after a review that reset the counter
AfterReset(g) ==
    \E j \in 1..Len(reviews) :
        ChangeSignal(reviews[j].words) /\ reviews[j].after = g - 1

\* the attempt index of generation g: the attempts made before it since the
\* start of the invocation or the last reset of the counter
AttemptIndex(g) ==
    IF g = 1 \/ AfterReset(g) THEN 0 ELSE gen_log[g - 1].counter + 1

\* C14: a generation call is reflective iff it is made with counter > 0 and
\* use_reflection is set; the counter it is made with is the number of
\* attempts since the start of the invocation or the last reset, so the call
\* with counter 0 is not reflective and with use_reflection unset none is.
C14_ReflectiveIffCounterAndEnabled ==
    \A g \in 1..Len(gen_log) :
        /\ gen_log[g].counter = AttemptIndex(g)
        /\ gen_log[g].use_reflection <=> (gen_log[g].counter > 0 /\ use_reflection)
        /\ gen_log[g].counter = 0 => ~gen_log[g].use_reflection
        /\ ~use_reflection => ~gen_log[g].use_reflection

C14_Witness ==
    /\ use_reflection
    /\ Len(gen_log) = 2
    /\ ~gen_log[1].use_reflection
    /\ gen_log[2].use_reflection
    /\ pc = "log_code"

\* the attempt under way was generated from a response without a code block
UnparsableAttempt == code # Unbound /\ code[1] = "text"

\* C15, the steps: a generation that yields no code block raises nothing and
\* goes on to execution; that execution fails; and when the attempt is
\* complete the counter has grown by one and the controller is at the next
\* generation or at the review gate.
C15_UnparsableSteps ==
    /\ (pc = "write_code" /\ n_gen' = n_gen + 1 /\ code'[1] = "text") =>
           exc' = "none" /\ pc' = "log_code"
    /\ (pc = "execute" /\ UnparsableAttempt /\ exc' = "none") =>
           ~success' /\ pc' = "log_result"
    /\ (pc = "log_result" /\ UnparsableAttempt /\ exc' = "none") =>
           /\ counter' = counter + 1
           /\ pc' = IF counter' < max_retry THEN "write_code" ELSE "ask_review"

LogPcs == {"log_code", "log_result"}

\* C16: an exception raised by a log_execution call, in the retry loop or in
\* extract_and_log_images, never aborts the loop: no run leaves the
\* controller with an exception that was raised at a logging position.
C16_LogFailureNeverAborts ==
    ~(/\ raised_at \in LogPcs
      /\ first_exc = "Exception"
      /\ exc # "none"
      /\ pc \notin ControllerPcs)

\* the entries of working memory that hold an answer of the execution
\* backend, and the submission each of them answers
FromBackend(m) == m.cause_by \in {"ExecuteNbCode", "CheckData"}
SubmissionOf(m) == m.content[2]

\* the positions at which the run is suspended on execute_code.run
AwaitingBackend == {"execute", "check_data_exec"}

AllChange == \A i \in 1..Len(reviews) : ChangeSignal(reviews[i].words)

\* the invocation is settled: its last execution succeeded, or the review
\* given after its last attempt carried no change signal
Settled ==
    /\ pc \in ControllerPcs
    /\ \/ success
       \/ /\ reviews # <<>>
          /\ reviews[Len(reviews)].after = n_done
          /\ ~ChangeSignal(LastReview)

\* C18, the loop: an invocation with max_retry >= 1 comes to its return only
\* settled; so while every execution fails and every review carries the
\* change signal it does not return, however many escalations there were.
C18_ReturnsOnlySettled ==
    (pc \in ControllerPcs /\ max_retry >= 1) =>
        /\ pc \in {"return", "returned"} => Settled
        /\ (AllFailed /\ AllChange) => pc \notin {"return", "returned"}
        /\ Settled => pc \in {"log_result", "return", "returned"}

\* C18, the end: a settled invocation generates no more code, submits
\* nothing more and asks for no more review.
C18_SettledStep ==
    (Settled /\ pc # "returned") =>
        /\ n_gen' = n_gen
        /\ n_exec' = n_exec
        /\ reviews' = reviews
        /\ pc' \in ControllerPcs => Settled'

\* the controller has left its loop: it has returned or raised
ControllerLeft == pc \notin (ControllerPcs \ {"returned"})

\* C18: the escalation rounds of one invocation are not bounded: as long as
\* every execution fails and every review carries the change signal the
\* controller goes on; as soon as an execution succeeds or a review carries
\* no change signal it attempts nothing more and, its awaits completing,
\* returns or raises.
C18_UnboundedEscalation ==
    /\ [](C18_ReturnsOnlySettled)
    /\ [][C18_SettledStep]_vars
    /\ Settled ~> ControllerLeft

C18_Witness ==
    /\ pc = "write_code"
    /\ counter = 0
    /\ Len(reviews) = 3
    /\ AllChange
    /\ AllFailed
    /\ Len(exec_log) = 3

\* C19, the gate: the review is asked for only when the execution just
\* completed failed and its attempt brought the counter to max_retry; so
\* every review of an invocation follows a failed execution, max_retry
\* attempts after the start or the review before it, which reset the counter.
C19_GateAfterLastRetryFailed ==
    /\ pc = "ask_review" =>
          /\ ~success
          /\ counter = max_retry
          /\ n_done = Len(exec_log)
    /\ \A j \in 1..Len(reviews) :
          /\ reviews[j].after \in 1..Len(exec_log)
          /\ ~exec_log[reviews[j].after].success
          /\ reviews[j].after = j * max_retry
          /\ j < Len(reviews) => ChangeSignal(reviews[j].words)

\* C19, the success: a successful execution is the last of its invocation;
\* no generation, no submission and no review comes after it.
C19_SuccessEndsLoop ==
    \A i \in 1..Len(exec_log) :
        exec_log[i].success =>
            /\ i = Len(exec_log)
            /\ Len(gen_log) = i
            /\ in_flight = 0
            /\ \A j \in 1..Len(reviews) : reviews[j].after < i
            /\ pc \notin {"write_code", "log_code", "execute", "ask_review"}

\* C19: the review gate is entered only right after a failed execution that
\* brings the counter to max_retry, and a success ends the loop at once,
\* also when it comes on the max_retry-th attempt.
C19_ReviewOnlyAfterFailedBudget ==
    /\ C19_GateAfterLastRetryFailed
    /\ C19_SuccessEndsLoop

C19_Witness ==
    /\ pc = "returned"
    /\ max_retry = 3
    /\ Len(exec_log) = 3
    /\ exec_log[3].success
    /\ reviews = <<>>
    /\ ret.success

\* C20: the generation that follows a review which reset the counter is
\* made with counter 0 and is not reflective, use_reflection set and earlier
\* failures notwithstanding; the generation after it, when no other reset
\* lies between, is reflective again iff use_reflection is set.
C20_NoReflectionRightAfterReset ==
    \A g \in 1..Len(gen_log) :
        AfterReset(g) =>
            /\ g > 1 /\ \A i \in 1..(g - 1) : ~exec_log[i].success
            /\ gen_log[g].counter = 0
            /\ ~gen_log[g].use_reflection
            /\ (g + 1 <= Len(gen_log) /\ ~AfterReset(g + 1)) =>
                   /\ gen_log[g + 1].counter = 1
                   /\ gen_log[g + 1].use_reflection = use_reflection

C20_Witness ==
    /\ use_reflection
    /\ Len(gen_log) = 4
    /\ AfterReset(3)
    /\ gen_log[2].use_reflection
    /\ ~gen_log[3].use_reflection
    /\ gen_log[4].use_reflection

\* C21, what does not happen: in a call with max_retry <= 0 no code is
\* generated, the loop executes nothing, no review is asked for, working
\* memory gets no code and no result message, and no triple is returned;
\* the only exceptions are those of the awaits of _check_data and the
\* UnboundLocalError of the return statement.
C21_BodyNeverRuns ==
    max_retry <= 0 =>
        /\ n_gen = 0 /\ gen_log = <<>>
        /\ exec_log = <<>>
        /\ reviews = <<>>
        /\ code = Unbound /\ result = Unbound
        /\ \A i \in 1..Len(working_memory) :
              ~IsCodeMessage(working_memory[i]) /\ ~IsResultMessage(working_memory[i])
        /\ pc \in {"start", "check_data_code", "check_data_exec", "return", "propagated"}
        /\ ret = NoRet
        /\ pc = "propagated" =>
              /\ exc # "none"
              /\ raised_at \in {"check_data_code", "check_data_exec", "return"}
              /\ raised_at = "return" <=> exc = "UnboundLocalError"

\* C21, the end: with max_retry <= 0 the call goes from its entry through
\* _check_data straight to the return statement, and the return statement
\* raises UnboundLocalError.
C21_StraightToError ==
    max_retry <= 0 =>
        /\ pc = "start" => pc' \in {"check_data_code", "return"}
        /\ pc \in {"check_data_code", "check_data_exec"} =>
               pc' \in {"check_data_exec", "return", "propagated"}
        /\ pc = "return" =>
               /\ pc' = "propagated"
               /\ exc' = "UnboundLocalError"
               /\ working_memory' = working_memory

\* C21: a call of _write_and_exec_code with max_retry <= 0 never runs the
\* loop body and ends in an error, the UnboundLocalError of its return
\* statement when nothing before it raised, instead of returning a triple.
C21_NoRetriesEndsInError ==
    /\ [](C21_BodyNeverRuns)
    /\ [][C21_StraightToError]_vars

C21_Witness ==
    /\ max_retry < 0
    /\ pc = "propagated"
    /\ exc = "UnboundLocalError"
    /\ raised_at = "return"
    /\ DataInfoAdded # {}
====
